---- MODULE Spec2Model ----
(***************************************************************************)
(* Model of the account engine (package account): the account's lifecycle  *)
(* and lock, the deposit allocator, the send pipeline and the default      *)
(* input selection strategy, with the store, the ledger client, the seed   *)
(* provider, the clock and the plugins as nondeterministic collaborators.  *)
(***************************************************************************)
EXTENDS Integers, Sequences, FiniteSets, TLC

VARIABLES
    running,        \* account.running
    lastKeyIndex,   \* account.lastKeyIndex
    setts,          \* account.setts: the plugin list, and whether the pointer is the caller's struct or a copy
    mu,             \* account.mu: [writer: {} or {p}, readers: set of processes]
    store,          \* the store's state of this account: key index, deposit requests, pending transfers
    now,            \* the injected clock's current time, in minutes
    pc,             \* pc[p]: where caller p is inside an operation ("idle" outside)
    frame,          \* frame[p]: arguments and locals of caller p's operation
    ret,            \* the return made by the last step, if it made one: [op, err]
    calls,          \* calls[p]: collaborators called so far by p's operation in progress
    issued,         \* the deposit requests stored so far, in issue order: [keyIndex, by, noTimeout]
    burnt,          \* history, kept while burnt.on: the key indices consumed by allocations that failed
    broadcast,      \* tail hashes of the bundles handed to the ledger's store-and-broadcast
    tails,          \* number of bundles attached so far (the next tail hash)
    plugRuns,       \* plugRuns[pl]: starts minus shutdowns of plugin pl
    sel             \* one invocation of the input selector on drawn inputs (SpecSel)

vars == <<running, lastKeyIndex, setts, mu, store, now, pc, frame, ret, calls,
          issued, burnt, broadcast, tails, plugRuns, sel>>

accVars == <<running, lastKeyIndex, setts, mu, store, now, pc, frame, ret, calls,
             issued, burnt, broadcast, tails, plugRuns>>

----------------------------------------------------------------------------
(* Bounds *)

\* highest key index the allocator is driven to
MaxKeyIndex == 3
\* highest clock value, in minutes
MaxTime == 6
\* highest balance the ledger reports for one address in Spec
MaxBalance == 1
\* number of bundles attached by Send
MaxSends == 2
\* highest key index of the stores drawn for the selector in SpecSel
SelMaxKey == 2
\* highest key index the allocator is driven to in SpecLife
LifeMaxKeyIndex == 1
\* highest count of unmatched starts, or shutdowns, of one plugin
MaxPluginRuns == 2
\* longest list of bundles the ledger returns for an address in SpecCons
MaxBundles == 3

\* the callers
Procs == {"p1", "p2"}

\* the clock readings: the start, one minute later, and the latest
Times == {0, 1, MaxTime}

----------------------------------------------------------------------------
(* Optional values: a Go pointer is the empty set (nil) or a singleton *)

Nil == {}
Some(v) == {v}
IsNil(x) == x = {}
Deref(x) == CHOOSE v \in x : TRUE

Range(s) == {s[i] : i \in 1..Len(s)}

\* all orders in which a Go map with key set K may be iterated
Perms(K) == {f \in [1..Cardinality(K) -> K] : \A i, j \in 1..Cardinality(K) : f[i] = f[j] => i = j}

RECURSIVE SumOver(_, _)
SumOver(f, K) == IF K = {} THEN 0
                 ELSE LET k == CHOOSE x \in K : TRUE IN f[k] + SumOver(f, K \ {k})

----------------------------------------------------------------------------
(* The default input selection strategy *)

\* the result of one selector call; status "panic" is the selector's panic
SelResult(status, err, sum, inputs, toRemove, checked) ==
    [status |-> status, err |-> err, sum |-> sum, inputs |-> inputs,
     toRemove |-> toRemove, checked |-> checked]

SelError(err) == SelResult("error", err, 0, <<>>, <<>>, {})

\* mutant: a multi-use address without an expected amount does not wait for its timeout
ClassifyMultiUseAsPrimary(req, t) ==
    IF IsNil(req.timeoutAt)
    THEN IF IsNil(req.expected) THEN "panic" ELSE "primary"
    ELSE IF t > Deref(req.timeoutAt) THEN "secondary"
    ELSE "primary"

\* where the partition loop puts one deposit request
Classify(req, t) ==
    IF IsNil(req.timeoutAt)
    THEN IF IsNil(req.expected) THEN "panic" ELSE "primary"
    ELSE IF t > Deref(req.timeoutAt) THEN "secondary"
    ELSE IF req.multi
         THEN IF IsNil(req.expected) THEN "skip" ELSE "primary"
         ELSE "primary"

\* the keys of one class, in the order the map iteration visited them
SelectionOf(depositRequests, order, t, class) ==
    LET Keep(k) == Classify(depositRequests[k], t) = class
    IN SelectSeq(order, Keep)

markForRemoval(toRemove, keyIndex, balanceCheck) ==
    IF balanceCheck THEN toRemove ELSE Append(toRemove, keyIndex)

addAsInput(inputs, input, balanceCheck) ==
    IF balanceCheck THEN inputs ELSE Append(inputs, input)

\* the scan of a selection stops once the sum is past the target (transfer mode)
BreaksScan(sum, transferValue, balanceCheck) == sum > transferValue /\ ~balanceCheck

\* mutant: probing does not look at the timed-out addresses
EntersSecondaryOnlyShort(sum, transferValue, balanceCheck) == sum < transferValue

\* mutant: the timed-out addresses are looked at when the target is just met
EntersSecondaryAtTarget(sum, transferValue, balanceCheck) == sum <= transferValue \/ balanceCheck

\* the timed-out addresses are looked at when the primary ones fell short, or probing
EntersSecondary(sum, transferValue, balanceCheck) == sum < transferValue \/ balanceCheck

\* mutant: an address holding exactly its expected amount is skipped too
UnfundedOrJustReached(req, balance) == ~IsNil(req.expected) /\ balance <= Deref(req.expected)

\* a primary address whose expected amount is not reached is skipped
Unfunded(req, balance) == ~IsNil(req.expected) /\ balance < Deref(req.expected)

\* mutant: a funded primary address without balance becomes an input
PrimaryStepKeepsEmpty(acc, keyIndex, req, balance, transferValue, balanceCheck) ==
    IF Unfunded(req, balance) THEN acc
    ELSE [acc EXCEPT
            !.sum = acc.sum + balance,
            !.inputs = addAsInput(acc.inputs, [keyIndex |-> keyIndex, balance |-> balance], balanceCheck),
            !.toRemove = markForRemoval(acc.toRemove, keyIndex, balanceCheck),
            !.brk = BreaksScan(acc.sum + balance, transferValue, balanceCheck)]

\* one iteration of the loop over primarySelection
PrimaryStep(acc, keyIndex, req, balance, transferValue, balanceCheck) ==
    IF Unfunded(req, balance) THEN acc
    ELSE IF balance <= 0 THEN [acc EXCEPT !.sum = acc.sum + balance]
    ELSE [acc EXCEPT
            !.sum = acc.sum + balance,
            !.inputs = addAsInput(acc.inputs, [keyIndex |-> keyIndex, balance |-> balance], balanceCheck),
            !.toRemove = markForRemoval(acc.toRemove, keyIndex, balanceCheck),
            !.brk = BreaksScan(acc.sum + balance, transferValue, balanceCheck)]

RECURSIVE PrimaryScan(_, _, _, _, _, _, _)
PrimaryScan(acc, i, primarySelection, depositRequests, bal, transferValue, balanceCheck) ==
    IF i > Len(primarySelection) \/ acc.brk THEN acc
    ELSE PrimaryScan(
            PrimaryStep(acc, primarySelection[i], depositRequests[primarySelection[i]],
                        bal[primarySelection[i]], transferValue, balanceCheck),
            i + 1, primarySelection, depositRequests, bal, transferValue, balanceCheck)

\* mutant: a failed consistency check frees the address
SecondaryStepFreeingOnError(acc, keyIndex, balance, has, transferValue, balanceCheck) ==
    IF balance = 0
    THEN IF has = "has"
         THEN [acc EXCEPT !.checked = acc.checked \cup {keyIndex}]
         ELSE [acc EXCEPT !.checked = acc.checked \cup {keyIndex},
                          !.toRemove = markForRemoval(acc.toRemove, keyIndex, balanceCheck)]
    ELSE [acc EXCEPT
            !.toRemove = markForRemoval(acc.toRemove, keyIndex, balanceCheck),
            !.sum = acc.sum + balance,
            !.inputs = addAsInput(acc.inputs, [keyIndex |-> keyIndex, balance |-> balance], balanceCheck),
            !.brk = BreaksScan(acc.sum + balance, transferValue, balanceCheck)]

\* one iteration of the loop over secondarySelection; has is the answer of
\* hasIncomingConsistentValueTransfer: "has", "none" or "err"
SecondaryStep(acc, keyIndex, balance, has, transferValue, balanceCheck) ==
    IF balance = 0
    THEN IF has # "none"
         THEN [acc EXCEPT !.checked = acc.checked \cup {keyIndex}]
         ELSE [acc EXCEPT !.checked = acc.checked \cup {keyIndex},
                          !.toRemove = markForRemoval(acc.toRemove, keyIndex, balanceCheck)]
    ELSE [acc EXCEPT
            !.toRemove = markForRemoval(acc.toRemove, keyIndex, balanceCheck),
            !.sum = acc.sum + balance,
            !.inputs = addAsInput(acc.inputs, [keyIndex |-> keyIndex, balance |-> balance], balanceCheck),
            !.brk = BreaksScan(acc.sum + balance, transferValue, balanceCheck)]

RECURSIVE SecondaryScan(_, _, _, _, _, _, _)
SecondaryScan(acc, i, secondarySelection, bal, cons, transferValue, balanceCheck) ==
    IF i > Len(secondarySelection) \/ acc.brk THEN acc
    ELSE SecondaryScan(
            SecondaryStep(acc, secondarySelection[i], bal[secondarySelection[i]],
                          cons[secondarySelection[i]], transferValue, balanceCheck),
            i + 1, secondarySelection, bal, cons, transferValue, balanceCheck)

\* mutant: a sum that equals the target is reported as insufficient
SelectionOutcomeStrict(acc, transferValue, balanceCheck) ==
    IF balanceCheck THEN SelResult("ok", "nil", acc.sum, <<>>, <<>>, acc.checked)
    ELSE IF acc.sum <= transferValue
         THEN SelResult("error", "InsufficientBalance", 0, <<>>, <<>>, acc.checked)
         ELSE SelResult("ok", "nil", acc.sum, acc.inputs, acc.toRemove, acc.checked)

\* what the selector returns once both passes are done
SelectionOutcome(acc, transferValue, balanceCheck) ==
    IF balanceCheck THEN SelResult("ok", "nil", acc.sum, <<>>, <<>>, acc.checked)
    ELSE IF acc.sum < transferValue
         THEN SelResult("error", "InsufficientBalance", 0, <<>>, <<>>, acc.checked)
         ELSE SelResult("ok", "nil", acc.sum, acc.inputs, acc.toRemove, acc.checked)

\* env is what the collaborators answer during the call: order (the map's
\* iteration order), bal (the ledger's balances), now (the clock), cons (the
\* consistency checker's answers) and fail (the collaborator call that fails)
defaultInputSelection(depositRequests, env, transferValue, balanceCheck) ==
    IF env.fail = "store" THEN SelError("store")
    ELSE IF DOMAIN depositRequests = {}
         THEN IF balanceCheck THEN SelResult("ok", "nil", 0, <<>>, <<>>, {})
              ELSE SelError("InsufficientBalance")
    ELSE IF env.fail \in {"milestone", "clock", "seed"} THEN SelError(env.fail)
    ELSE IF \E k \in DOMAIN depositRequests : Classify(depositRequests[k], env.now) = "panic"
         THEN SelResult("panic", "panic", 0, <<>>, <<>>, {})
    ELSE IF env.fail = "balances" THEN SelError("balances")
    ELSE LET primarySelection == SelectionOf(depositRequests, env.order, env.now, "primary")
             secondarySelection == SelectionOf(depositRequests, env.order, env.now, "secondary")
             start == [sum |-> 0, inputs |-> <<>>, toRemove |-> <<>>, checked |-> {}, brk |-> FALSE]
             afterPrimary == PrimaryScan(start, 1, primarySelection, depositRequests, env.bal,
                                         transferValue, balanceCheck)
             afterSecondary ==
                 IF EntersSecondary(afterPrimary.sum, transferValue, balanceCheck)
                 THEN SecondaryScan([afterPrimary EXCEPT !.brk = FALSE], 1, secondarySelection,
                                    env.bal, env.cons, transferValue, balanceCheck)
                 ELSE afterPrimary
         IN SelectionOutcome(afterSecondary, transferValue, balanceCheck)

----------------------------------------------------------------------------
(* The stores, ledger answers and targets drawn for the selector *)

SelTimeouts == {Nil, Some(5), Some(6)}
SelExpected == {Nil, Some(40)}
SelBalances == {0, 10, 40, 70}
SelTargets == {40, 70, 100, 110, 120}
SelNow == {6}
SelFailures == {"store", "milestone", "clock", "seed", "balances"}

SelRequests == [timeoutAt : SelTimeouts, expected : SelExpected, multi : BOOLEAN]

SelStores == UNION {[K -> SelRequests] : K \in SUBSET (1..SelMaxKey)}

\* what the collaborators may answer during a selector call on the deposit
\* requests at clock value t: the consistency checker is only asked about
\* timed-out addresses of balance zero, and a failing call's other answers
\* are never read
Envs(depositRequests, t, balances) ==
    LET K == DOMAIN depositRequests
    IN {e \in [order : Perms(K), bal : [K -> balances], now : {t},
               cons : [K -> {"has", "none", "err"}], fail : {"none"}] :
            \A k \in K : (Classify(depositRequests[k], t) # "secondary" \/ e.bal[k] # 0)
                             => e.cons[k] = "none"}
       \cup
       [order : {CHOOSE o \in Perms(K) : TRUE}, bal : {[k \in K |-> 0]}, now : {t},
        cons : {[k \in K |-> "none"]}, fail : SelFailures]

NoEnv == [order |-> <<>>, bal |-> <<>>, now |-> 0, cons |-> <<>>, fail |-> "none"]
NoRes == SelResult("none", "none", 0, <<>>, <<>>, {})
NoSel == [phase |-> "none", value |-> 0, env |-> NoEnv, res |-> NoRes]

----------------------------------------------------------------------------
(* The collaborators *)

HashTrytesSize == 81
AddressChecksumTrytesSize == 9
MinTimeoutMinutes == 5

\* guards.IsTrytesOfExactLength on an address given by its length and by
\* whether all its characters are trytes
IsTrytesOfExactLength(addr, length) == addr.trytes /\ addr.len = length

\* the store: LoadAccount's key index, the deposit requests, the pending transfers
NewStore == [keyIndex |-> 0, requests |-> <<>>, pending |-> {}]

WriteIndex(st, index) == [st EXCEPT !.keyIndex = index]

AddDepositRequest(st, index, req) ==
    [st EXCEPT !.requests = (index :> req) @@ st.requests]

\* the pending transfer is stored and the deposit requests of the freed key
\* indices leave the store
AddPendingTransfer(st, tailHash, forRemoval) ==
    [st EXCEPT !.pending = st.pending \cup {[tail |-> tailHash, freed |-> Range(forRemoval)]},
               !.requests = [k \in DOMAIN st.requests \ Range(forRemoval) |-> st.requests[k]]]

PluginNames == {"pa", "pb"}

\* the plugins of a list that a start (or shutdown) loop gets through when
\* the call at position failAt returns an error (0: no call fails)
PluginsDone(plugins, failAt) ==
    IF failAt = 0 THEN Range(plugins) ELSE {plugins[i] : i \in 1..(failAt - 1)}

startPlugins(failAt) ==
    plugRuns' = [pl \in PluginNames |->
                    IF pl \in PluginsDone(setts.plugins, failAt) THEN plugRuns[pl] + 1 ELSE plugRuns[pl]]

shutdownPlugins(failAt) ==
    plugRuns' = [pl \in PluginNames |->
                    IF pl \in PluginsDone(setts.plugins, failAt) THEN plugRuns[pl] - 1 ELSE plugRuns[pl]]

----------------------------------------------------------------------------
(* The account: lock, entry and return of an operation *)

\* entry is the store and the broadcast bundles as the operation found them
NoEntry == [store |-> <<>>, broadcast |-> {}]
NoFrame == [recipients |-> <<>>, transferSum |-> 0, sum |-> 0, inputs |-> <<>>,
            forRemoval |-> <<>>, tail |-> 0, newSetts |-> <<>>, entry |-> NoEntry]
NoRet == [op |-> "none", err |-> "none", args |-> <<>>]

Mutators == {"Send", "AllocateDepositRequest", "Start", "Shutdown"}
Readers == {"AvailableBalance", "TotalBalance", "IsNew"}

Init ==
    /\ running = FALSE
    /\ lastKeyIndex = 0
    /\ setts = [plugins |-> <<>>, ref |-> "caller"]
    /\ mu = [writer |-> {}, readers |-> {}]
    /\ store = NewStore
    /\ now = 0
    /\ pc = [p \in Procs |-> "idle"]
    /\ frame = [p \in Procs |-> NoFrame]
    /\ ret = NoRet
    /\ calls = [p \in Procs |-> {}]
    /\ issued = <<>>
    /\ burnt = [on |-> FALSE, keys |-> {}]
    /\ broadcast = {}
    /\ tails = 0
    /\ plugRuns = [pl \in PluginNames |-> 0]
    /\ sel = NoSel

\* mutant: the write lock is taken although readers hold the lock
LockDespiteReaders(p, op) ==
    /\ pc[p] = "idle"
    /\ mu.writer = {}
    /\ op \in {"Send", "AllocateDepositRequest"} => lastKeyIndex < MaxKeyIndex
    /\ op = "Send" => tails < MaxSends
    /\ mu' = [mu EXCEPT !.writer = {p}]
    /\ pc' = [pc EXCEPT ![p] = op]
    /\ frame' = [frame EXCEPT ![p] = [NoFrame EXCEPT !.entry = [store |-> store, broadcast |-> broadcast]]]
    /\ ret' = NoRet
    /\ UNCHANGED <<running, lastKeyIndex, setts, store, now, calls,
                   issued, burnt, broadcast, tails, plugRuns, sel>>

\* acc.mu.Lock() on entry of a mutating operation
Lock(p, op) ==
    /\ pc[p] = "idle"
    /\ mu.writer = {} /\ mu.readers = {}
    /\ op \in {"Send", "AllocateDepositRequest"} => lastKeyIndex < MaxKeyIndex
    /\ op = "Send" => tails < MaxSends
    /\ mu' = [mu EXCEPT !.writer = {p}]
    /\ pc' = [pc EXCEPT ![p] = op]
    /\ frame' = [frame EXCEPT ![p] = [NoFrame EXCEPT !.entry = [store |-> store, broadcast |-> broadcast]]]
    /\ ret' = NoRet
    /\ UNCHANGED <<running, lastKeyIndex, setts, store, now, calls,
                   issued, burnt, broadcast, tails, plugRuns, sel>>

\* acc.mu.RLock() on entry of a reading operation
RLock(p, op) ==
    /\ pc[p] = "idle"
    /\ mu.writer = {}
    /\ mu' = [mu EXCEPT !.readers = mu.readers \cup {p}]
    /\ pc' = [pc EXCEPT ![p] = op]
    /\ ret' = NoRet
    /\ UNCHANGED <<running, lastKeyIndex, setts, store, now, frame, calls,
                   issued, burnt, broadcast, tails, plugRuns, sel>>

\* the operation, called with args, returns err and its deferred Unlock/RUnlock runs
ReturnOf(p, op, err, args) ==
    /\ pc' = [pc EXCEPT ![p] = "idle"]
    /\ mu' = [writer |-> mu.writer \ {p}, readers |-> mu.readers \ {p}]
    /\ frame' = [frame EXCEPT ![p] = NoFrame]
    /\ calls' = [calls EXCEPT ![p] = {}]
    /\ ret' = [op |-> op, err |-> err, args |-> args]

Return(p, op, err) == ReturnOf(p, op, err, <<>>)

\* p's operation goes on at label next, having called the collaborators called
Goto(p, next, called) ==
    /\ pc' = [pc EXCEPT ![p] = next]
    /\ calls' = [calls EXCEPT ![p] = calls[p] \cup called]
    /\ ret' = NoRet
    /\ UNCHANGED mu

----------------------------------------------------------------------------
(* The deposit allocator *)

AllocOutcomes == {"ok", "seed", "address", "writeIndex", "addRequest"}

\* mutant: the last key index is not incremented
allocateDepositRequestNoIncrement(req, by, outcome) ==
    /\ lastKeyIndex' = lastKeyIndex
    /\ store' = CASE outcome \in {"seed", "address", "writeIndex"} -> store
                  [] outcome = "addRequest" -> WriteIndex(store, lastKeyIndex)
                  [] outcome = "ok" ->
                        AddDepositRequest(WriteIndex(store, lastKeyIndex), lastKeyIndex, req)
    /\ issued' = IF outcome = "ok"
                 THEN Append(issued, [keyIndex |-> lastKeyIndex, by |-> by,
                                      noTimeout |-> IsNil(req.timeoutAt)])
                 ELSE issued
    /\ burnt' = IF burnt.on /\ outcome \in {"address", "writeIndex", "addRequest"}
                THEN [burnt EXCEPT !.keys = burnt.keys \cup {lastKeyIndex}]
                ELSE burnt

\* account.allocateDepositRequest for the operation by; outcome names the
\* collaborator call that fails ("ok": none)
allocateDepositRequest(req, by, outcome) ==
    /\ lastKeyIndex' = IF outcome = "seed" THEN lastKeyIndex ELSE lastKeyIndex + 1
    /\ store' = CASE outcome \in {"seed", "address", "writeIndex"} -> store
                  [] outcome = "addRequest" -> WriteIndex(store, lastKeyIndex + 1)
                  [] outcome = "ok" ->
                        AddDepositRequest(WriteIndex(store, lastKeyIndex + 1), lastKeyIndex + 1, req)
    /\ issued' = IF outcome = "ok"
                 THEN Append(issued, [keyIndex |-> lastKeyIndex + 1, by |-> by,
                                      noTimeout |-> IsNil(req.timeoutAt)])
                 ELSE issued
    /\ burnt' = IF burnt.on /\ outcome \in {"address", "writeIndex", "addRequest"}
                THEN [burnt EXCEPT !.keys = burnt.keys \cup {lastKeyIndex + 1}]
                ELSE burnt

\* the collaborators allocateDepositRequest has called when it ends with outcome
AllocCalls(outcome) ==
    CASE outcome = "seed" -> {"seed"}
      [] outcome = "address" -> {"seed"}
      [] outcome = "writeIndex" -> {"seed", "store"}
      [] OTHER -> {"seed", "store"}

AllocTimeouts == {Nil, Some(2), Some(MinTimeoutMinutes)}
AllocRequests == [timeoutAt : AllocTimeouts, expected : {Nil}, multi : BOOLEAN]

\* mutant: a timeout exactly five minutes ahead is rejected too
TimeoutTooLowInclusive(req, currentTime) == Deref(req.timeoutAt) - MinTimeoutMinutes <= currentTime

\* req.TimeoutAt.Add(-5 minutes).Before(currentTime)
TimeoutTooLow(req, currentTime) == Deref(req.timeoutAt) - MinTimeoutMinutes < currentTime

AllocateDepositRequest(p) ==
    /\ pc[p] = "AllocateDepositRequest"
    /\ UNCHANGED <<running, setts, now, broadcast, tails, plugRuns, sel>>
    /\ IF ~running
       THEN /\ Return(p, "AllocateDepositRequest", "NotRunning")
            /\ UNCHANGED <<lastKeyIndex, store, issued, burnt>>
       ELSE \E req \in AllocRequests :
              IF IsNil(req.timeoutAt)
              THEN /\ ReturnOf(p, "AllocateDepositRequest", "TimeoutNotSpecified", <<req>>)
                   /\ UNCHANGED <<lastKeyIndex, store, issued, burnt>>
              ELSE \/ /\ ReturnOf(p, "AllocateDepositRequest", "clock", <<req>>)
                      /\ UNCHANGED <<lastKeyIndex, store, issued, burnt>>
                   \/ IF TimeoutTooLow(req, now)
                      THEN /\ ReturnOf(p, "AllocateDepositRequest", "TimeoutTooLow", <<req>>)
                           /\ UNCHANGED <<lastKeyIndex, store, issued, burnt>>
                      ELSE \E outcome \in AllocOutcomes :
                             /\ allocateDepositRequest(req, "AllocateDepositRequest", outcome)
                             /\ ReturnOf(p, "AllocateDepositRequest",
                                         IF outcome = "ok" THEN "nil" ELSE outcome, <<req>>)

----------------------------------------------------------------------------
(* The send pipeline *)

ValidAddress == [len |-> HashTrytesSize + AddressChecksumTrytesSize, trytes |-> TRUE]
Addresses == {ValidAddress,
              [len |-> HashTrytesSize, trytes |-> TRUE],
              [len |-> HashTrytesSize + AddressChecksumTrytesSize, trytes |-> FALSE]}
RecipientChoices == [address : {ValidAddress}, value : 0..MaxBalance]
                    \cup [address : Addresses \ {ValidAddress}, value : {1}]
RecipientLists == {<<>>} \cup {<<r>> : r \in RecipientChoices}
                  \cup {<<r1, r2>> : r1 \in RecipientChoices, r2 \in RecipientChoices}

\* Recipients.Sum
RECURSIVE Sum(_)
Sum(recps) == IF recps = <<>> THEN 0 ELSE Head(recps).value + Sum(Tail(recps))

\* mutant: the recipients' addresses are not validated
SendNoAddressCheck(p) ==
    /\ pc[p] = "Send"
    /\ UNCHANGED <<running, lastKeyIndex, setts, store, now, issued, burnt, broadcast, tails,
                   plugRuns, sel>>
    /\ IF ~running
       THEN Return(p, "Send", "NotRunning")
       ELSE \E recipients \in RecipientLists :
              IF Len(recipients) = 0
              THEN ReturnOf(p, "Send", "EmptyRecipients", recipients)
              ELSE /\ frame' = [frame EXCEPT ![p].recipients = recipients,
                                            ![p].transferSum = Sum(recipients)]
                   /\ Goto(p, IF Sum(recipients) > 0 THEN "sendSelect" ELSE "sendPrepare", {})

\* account.Send up to its call of acc.send
Send(p) ==
    /\ pc[p] = "Send"
    /\ UNCHANGED <<running, lastKeyIndex, setts, store, now, issued, burnt, broadcast, tails,
                   plugRuns, sel>>
    /\ IF ~running
       THEN Return(p, "Send", "NotRunning")
       ELSE \E recipients \in RecipientLists :
              IF Len(recipients) = 0
              THEN ReturnOf(p, "Send", "EmptyRecipients", recipients)
              ELSE IF \E i \in 1..Len(recipients) :
                        ~IsTrytesOfExactLength(recipients[i].address,
                                               HashTrytesSize + AddressChecksumTrytesSize)
              THEN ReturnOf(p, "Send", "InvalidAddress", recipients)
              ELSE /\ frame' = [frame EXCEPT ![p].recipients = recipients,
                                            ![p].transferSum = Sum(recipients)]
                   /\ Goto(p, IF Sum(recipients) > 0 THEN "sendSelect" ELSE "sendPrepare", {})

\* what the collaborators may answer to a selector call on the account's store
SpecEnvs == Envs(store.requests, now, 0..MaxBalance)

\* the collaborators a selector call has called when it returns res
SelCalls(res) ==
    CASE res.err = "store" -> {"store"}
      [] res.err = "milestone" -> {"store", "ledger"}
      [] res.err = "clock" -> {"store", "ledger", "clock"}
      [] res.err = "InsufficientBalance" /\ DOMAIN store.requests = {} -> {"store"}
      [] OTHER -> {"store", "ledger", "clock", "seed"}

\* mutant: the key indices marked for removal leave the store at selection
sendSelectFreeing(p) ==
    /\ pc[p] = "sendSelect"
    /\ UNCHANGED <<running, lastKeyIndex, setts, now, issued, burnt, broadcast, tails,
                   plugRuns, sel>>
    /\ \E env \in SpecEnvs :
          LET res == defaultInputSelection(store.requests, env, frame[p].transferSum, FALSE)
          IN IF res.status # "ok"
             THEN /\ Return(p, "Send", res.err)
                  /\ UNCHANGED store
             ELSE /\ frame' = [frame EXCEPT ![p].sum = res.sum, ![p].inputs = res.inputs,
                                            ![p].forRemoval = res.toRemove]
                  /\ store' = [store EXCEPT !.requests =
                                  [k \in DOMAIN store.requests \ Range(res.toRemove) |->
                                      store.requests[k]]]
                  /\ Goto(p, IF res.sum > frame[p].transferSum THEN "sendRemainder"
                                                               ELSE "sendPrepare",
                          SelCalls(res) \cup {"selector"})

\* mutant: a remainder deposit request is allocated when the sum just meets the target
sendSelectRemainderAtTarget(p) ==
    /\ pc[p] = "sendSelect"
    /\ UNCHANGED <<running, lastKeyIndex, setts, store, now, issued, burnt, broadcast, tails,
                   plugRuns, sel>>
    /\ \E env \in SpecEnvs :
          LET res == defaultInputSelection(store.requests, env, frame[p].transferSum, FALSE)
          IN IF res.status # "ok"
             THEN Return(p, "Send", res.err)
             ELSE /\ frame' = [frame EXCEPT ![p].sum = res.sum, ![p].inputs = res.inputs,
                                            ![p].forRemoval = res.toRemove]
                  /\ Goto(p, IF res.sum >= frame[p].transferSum THEN "sendRemainder"
                                                                ELSE "sendPrepare",
                          SelCalls(res) \cup {"selector"})

\* account.send: input selection
sendSelect(p) ==
    /\ pc[p] = "sendSelect"
    /\ UNCHANGED <<running, lastKeyIndex, setts, store, now, issued, burnt, broadcast, tails,
                   plugRuns, sel>>
    /\ \E env \in SpecEnvs :
          LET res == defaultInputSelection(store.requests, env, frame[p].transferSum, FALSE)
          IN IF res.status # "ok"
             THEN Return(p, "Send", res.err)
             ELSE /\ frame' = [frame EXCEPT ![p].sum = res.sum, ![p].inputs = res.inputs,
                                            ![p].forRemoval = res.toRemove]
                  /\ Goto(p, IF res.sum > frame[p].transferSum THEN "sendRemainder"
                                                               ELSE "sendPrepare",
                          SelCalls(res) \cup {"selector"})

\* mutant: the remainder deposit request carries no expected amount
sendRemainderNoExpected(p) ==
    /\ pc[p] = "sendRemainder"
    /\ UNCHANGED <<running, setts, now, broadcast, tails, plugRuns, sel>>
    /\ \E outcome \in AllocOutcomes :
          /\ allocateDepositRequest([timeoutAt |-> Nil, expected |-> Nil, multi |-> FALSE],
                                    "send", outcome)
          /\ IF outcome = "ok"
             THEN /\ Goto(p, "sendPrepare", AllocCalls(outcome))
                  /\ UNCHANGED frame
             ELSE Return(p, "Send", outcome)

\* account.send: the remainder deposit request
sendRemainder(p) ==
    /\ pc[p] = "sendRemainder"
    /\ UNCHANGED <<running, setts, now, broadcast, tails, plugRuns, sel>>
    /\ \E outcome \in AllocOutcomes :
          /\ allocateDepositRequest(
                 [timeoutAt |-> Nil, expected |-> Some(frame[p].sum - frame[p].transferSum),
                  multi |-> FALSE], "send", outcome)
          /\ IF outcome = "ok"
             THEN /\ Goto(p, "sendPrepare", AllocCalls(outcome))
                  /\ UNCHANGED frame
             ELSE Return(p, "Send", outcome)

PrepareOutcomes == {"ok", "clock", "seed", "prepare", "gtta", "pow", "tail"}

\* the collaborators the prepare step has called when it ends with outcome
PrepareCalls(outcome) ==
    CASE outcome = "clock" -> {"clock"}
      [] outcome = "seed" -> {"clock", "seed"}
      [] OTHER -> {"clock", "seed", "ledger"}

\* account.send: clock, seed, PrepareTransfers, GetTransactionsToApprove,
\* AttachToTangle and the tail transaction
sendPrepare(p) ==
    /\ pc[p] = "sendPrepare"
    /\ UNCHANGED <<running, lastKeyIndex, setts, store, now, issued, burnt, broadcast,
                   plugRuns, sel>>
    /\ \E outcome \in PrepareOutcomes :
          IF outcome = "ok"
          THEN /\ tails' = tails + 1
               /\ frame' = [frame EXCEPT ![p].tail = tails + 1]
               /\ Goto(p, "sendPersist", PrepareCalls(outcome))
          ELSE /\ UNCHANGED tails
               /\ Return(p, "Send", outcome)

\* mutant: the bundle is broadcast although storing the pending transfer failed
sendPersistIgnoringError(p) ==
    /\ pc[p] = "sendPersist"
    /\ UNCHANGED <<running, lastKeyIndex, setts, now, issued, burnt, broadcast, tails,
                   plugRuns, sel>>
    /\ \/ /\ store' = AddPendingTransfer(store, frame[p].tail, frame[p].forRemoval)
          /\ Goto(p, "sendBroadcast", {"store"})
          /\ UNCHANGED frame
       \/ /\ UNCHANGED store
          /\ Goto(p, "sendBroadcast", {"store"})
          /\ UNCHANGED frame

\* account.send: store.AddPendingTransfer
sendPersist(p) ==
    /\ pc[p] = "sendPersist"
    /\ UNCHANGED <<running, lastKeyIndex, setts, now, issued, burnt, broadcast, tails,
                   plugRuns, sel>>
    /\ \/ /\ store' = AddPendingTransfer(store, frame[p].tail, frame[p].forRemoval)
          /\ Goto(p, "sendBroadcast", {"store"})
          /\ UNCHANGED frame
       \/ /\ UNCHANGED store
          /\ Return(p, "Send", "persist")

\* account.send: api.StoreAndBroadcast, the bundle's transaction objects and
\* the sending-transfer event
sendBroadcast(p) ==
    /\ pc[p] = "sendBroadcast"
    /\ UNCHANGED <<running, lastKeyIndex, setts, store, now, issued, burnt, tails, plugRuns, sel>>
    /\ \/ /\ UNCHANGED broadcast
          /\ Return(p, "Send", "broadcast")
       \/ /\ broadcast' = broadcast \cup {frame[p].tail}
          /\ \E err \in {"nil", "transactionObjects"} : Return(p, "Send", err)

----------------------------------------------------------------------------
(* The balance queries *)

\* account.AvailableBalance: the selector in probe mode
AvailableBalance(p) ==
    /\ pc[p] = "AvailableBalance"
    /\ UNCHANGED <<running, lastKeyIndex, setts, store, now, issued, burnt, broadcast, tails,
                   plugRuns, sel>>
    /\ IF ~running
       THEN Return(p, "AvailableBalance", "NotRunning")
       ELSE \E err \in {defaultInputSelection(store.requests, env, 0, TRUE).err : env \in SpecEnvs} :
              Return(p, "AvailableBalance", err)

\* account.TotalBalance
TotalBalance(p) ==
    /\ pc[p] = "TotalBalance"
    /\ UNCHANGED <<running, lastKeyIndex, setts, store, now, issued, burnt, broadcast, tails,
                   plugRuns, sel>>
    /\ IF ~running
       THEN Return(p, "TotalBalance", "NotRunning")
       ELSE \/ Return(p, "TotalBalance", "store")
            \/ IF DOMAIN store.requests = {}
               THEN Return(p, "TotalBalance", "nil")
               ELSE \E err \in {"milestone", "seed", "balances", "nil"} :
                      Return(p, "TotalBalance", err)

\* account.IsNew
IsNew(p) ==
    /\ pc[p] = "IsNew"
    /\ UNCHANGED <<running, lastKeyIndex, setts, store, now, issued, burnt, broadcast, tails,
                   plugRuns, sel>>
    /\ IF ~running
       THEN Return(p, "IsNew", "NotRunning")
       ELSE \E err \in {"store", "nil"} : Return(p, "IsNew", err)

----------------------------------------------------------------------------
(* The lifecycle *)

\* mutant: the running flag is set before the plugins are started
StartRunningFirst(p) ==
    /\ pc[p] = "Start"
    /\ UNCHANGED <<setts, store, now, issued, burnt, broadcast, tails, sel>>
    /\ \/ /\ Return(p, "Start", "store")
          /\ UNCHANGED <<running, lastKeyIndex, plugRuns>>
       \/ /\ lastKeyIndex' = store.keyIndex
          /\ running' = TRUE
          /\ \E failAt \in 0..Len(setts.plugins) :
                /\ startPlugins(failAt)
                /\ Return(p, "Start", IF failAt = 0 THEN "nil" ELSE "plugin")

\* account.Start
Start(p) ==
    /\ pc[p] = "Start"
    /\ UNCHANGED <<setts, store, now, issued, burnt, broadcast, tails, sel>>
    /\ \/ /\ Return(p, "Start", "store")
          /\ UNCHANGED <<running, lastKeyIndex, plugRuns>>
       \/ /\ lastKeyIndex' = store.keyIndex
          /\ \E failAt \in 0..Len(setts.plugins) :
                /\ startPlugins(failAt)
                /\ running' = IF failAt = 0 THEN TRUE ELSE running
                /\ Return(p, "Start", IF failAt = 0 THEN "nil" ELSE "plugin")

\* mutant: Shutdown does not look at the running flag
ShutdownUnchecked(p) ==
    /\ pc[p] = "Shutdown"
    /\ UNCHANGED <<lastKeyIndex, setts, store, now, issued, burnt, broadcast, tails, sel>>
    /\ running' = FALSE
    /\ \E failAt \in 0..Len(setts.plugins) :
          /\ shutdownPlugins(failAt)
          /\ Return(p, "Shutdown", IF failAt = 0 THEN "nil" ELSE "plugin")

\* account.Shutdown
Shutdown(p) ==
    /\ pc[p] = "Shutdown"
    /\ UNCHANGED <<lastKeyIndex, setts, store, now, issued, burnt, broadcast, tails, sel>>
    /\ IF ~running
       THEN /\ Return(p, "Shutdown", "NotRunning")
            /\ UNCHANGED <<running, plugRuns>>
       ELSE /\ running' = FALSE
            /\ \E failAt \in 0..Len(setts.plugins) :
                  /\ shutdownPlugins(failAt)
                  /\ Return(p, "Shutdown", IF failAt = 0 THEN "nil" ELSE "plugin")

\* the clock advances
Tick ==
    /\ \E t \in Times : t > now /\ now' = t
    /\ ret' = NoRet
    /\ UNCHANGED <<running, lastKeyIndex, setts, mu, store, pc, frame, calls,
                   issued, burnt, broadcast, tails, plugRuns, sel>>

Next ==
    \/ \E p \in Procs : \E op \in Mutators : Lock(p, op)
    \/ \E p \in Procs : RLock(p, "AvailableBalance")
    \/ \E p \in Procs : Send(p)
    \/ \E p \in Procs : sendSelect(p)
    \/ \E p \in Procs : sendRemainder(p)
    \/ \E p \in Procs : sendPrepare(p)
    \/ \E p \in Procs : sendPersist(p)
    \/ \E p \in Procs : sendBroadcast(p)
    \/ \E p \in Procs : AllocateDepositRequest(p)
    \/ \E p \in Procs : AvailableBalance(p)
    \/ \E p \in Procs : Start(p)
    \/ \E p \in Procs : Shutdown(p)
    \/ Tick

Spec == Init /\ [][Next]_vars

----------------------------------------------------------------------------
(* SpecLife: the lifecycle, with plugins, settings updates and all readers *)

PluginLists == {<<>>, <<"pa">>, <<"pa", "pb">>}

LifeMutators == Mutators \cup {"UpdateSettings"}

\* mutant: the settings are swapped before the plugins are shut down
UpdateSettingsSwapsFirst(p) ==
    /\ pc[p] = "UpdateSettings"
    /\ UNCHANGED <<running, lastKeyIndex, store, now, issued, burnt, broadcast, tails, sel>>
    /\ IF ~running
       THEN /\ Return(p, "UpdateSettings", "NotRunning")
            /\ UNCHANGED <<setts, plugRuns>>
       ELSE \E new \in PluginLists : \E failAt \in 0..Len(setts.plugins) :
              /\ shutdownPlugins(failAt)
              /\ setts' = [plugins |-> new, ref |-> "copy"]
              /\ IF failAt # 0
                 THEN ReturnOf(p, "UpdateSettings", "shutdownPlugin", <<new>>)
                 ELSE /\ frame' = [frame EXCEPT ![p].newSetts = new]
                      /\ Goto(p, "updateSettingsStart", {"plugins"})

\* account.UpdateSettings up to the swap of the settings
UpdateSettings(p) ==
    /\ pc[p] = "UpdateSettings"
    /\ UNCHANGED <<running, lastKeyIndex, store, now, issued, burnt, broadcast, tails, sel>>
    /\ IF ~running
       THEN /\ Return(p, "UpdateSettings", "NotRunning")
            /\ UNCHANGED <<setts, plugRuns>>
       ELSE \E new \in PluginLists : \E failAt \in 0..Len(setts.plugins) :
              /\ shutdownPlugins(failAt)
              /\ IF failAt # 0
                 THEN /\ ReturnOf(p, "UpdateSettings", "shutdownPlugin", <<new>>)
                      /\ UNCHANGED setts
                 ELSE /\ setts' = [plugins |-> new, ref |-> "copy"]
                      /\ frame' = [frame EXCEPT ![p].newSetts = new]
                      /\ Goto(p, "updateSettingsStart", {"plugins"})

\* account.UpdateSettings: the plugins are started under the new settings
updateSettingsStart(p) ==
    /\ pc[p] = "updateSettingsStart"
    /\ UNCHANGED <<running, lastKeyIndex, setts, store, now, issued, burnt, broadcast, tails, sel>>
    /\ \E failAt \in 0..Len(setts.plugins) :
          /\ startPlugins(failAt)
          /\ ReturnOf(p, "UpdateSettings", IF failAt = 0 THEN "nil" ELSE "startPlugin",
                      <<frame[p].newSetts>>)

\* the caller changes the plugin list of the Settings struct it gave to
\* newAccount, which the account still points to
CallerMutates ==
    /\ setts.ref = "caller"
    /\ \E plugins \in PluginLists \ {setts.plugins} : setts' = [setts EXCEPT !.plugins = plugins]
    /\ ret' = NoRet
    /\ UNCHANGED <<running, lastKeyIndex, mu, store, now, pc, frame, calls,
                   issued, burnt, broadcast, tails, plugRuns, sel>>

LifeInit ==
    /\ running = FALSE
    /\ lastKeyIndex = 0
    /\ setts \in {[plugins |-> plugins, ref |-> "caller"] : plugins \in PluginLists}
    /\ mu = [writer |-> {}, readers |-> {}]
    /\ store = NewStore
    /\ now = 0
    /\ pc = [p \in Procs |-> "idle"]
    /\ frame = [p \in Procs |-> NoFrame]
    /\ ret = NoRet
    /\ calls = [p \in Procs |-> {}]
    /\ issued = <<>>
    /\ burnt = [on |-> TRUE, keys |-> {}]
    /\ broadcast = {}
    /\ tails = 0
    /\ plugRuns = [pl \in PluginNames |-> 0]
    /\ sel = NoSel

\* acc.mu.Lock() within the bounds of SpecLife, whose callers call Send on a
\* stopped account only (Spec has the Send of a running account)
LifeLock(p, op) ==
    /\ op = "AllocateDepositRequest" => lastKeyIndex < LifeMaxKeyIndex
    /\ op = "Send" => ~running
    /\ op \in {"Start", "Shutdown", "UpdateSettings"} =>
          \A pl \in PluginNames : plugRuns[pl] < MaxPluginRuns /\ plugRuns[pl] > -MaxPluginRuns
    /\ Lock(p, op)

NextLife ==
    \/ \E p \in Procs : \E op \in LifeMutators : LifeLock(p, op)
    \/ \E p \in Procs : \E op \in Readers : RLock(p, op)
    \/ \E p \in Procs : Send(p)
    \/ \E p \in Procs : AllocateDepositRequest(p)
    \/ \E p \in Procs : AvailableBalance(p)
    \/ \E p \in Procs : TotalBalance(p)
    \/ \E p \in Procs : IsNew(p)
    \/ \E p \in Procs : Start(p)
    \/ \E p \in Procs : Shutdown(p)
    \/ \E p \in Procs : UpdateSettings(p)
    \/ \E p \in Procs : updateSettingsStart(p)
    \/ CallerMutates

SpecLife == LifeInit /\ [][NextLife]_vars

----------------------------------------------------------------------------
(* SpecSel: the selector applied to drawn stores, ledger answers and targets *)

SelInit ==
    /\ running = TRUE
    /\ lastKeyIndex = SelMaxKey
    /\ setts = [plugins |-> <<>>, ref |-> "caller"]
    /\ mu = [writer |-> {}, readers |-> {}]
    /\ store \in {[keyIndex |-> SelMaxKey, requests |-> r, pending |-> {}] : r \in SelStores}
    /\ now \in SelNow
    /\ pc = [p \in Procs |-> "idle"]
    /\ frame = [p \in Procs |-> NoFrame]
    /\ ret = NoRet
    /\ calls = [p \in Procs |-> {}]
    /\ issued = <<>>
    /\ burnt = [on |-> FALSE, keys |-> {}]
    /\ broadcast = {}
    /\ tails = 0
    /\ plugRuns = [pl \in PluginNames |-> 0]
    /\ sel \in {[phase |-> "input", value |-> v, env |-> NoEnv, res |-> NoRes] : v \in SelTargets}

\* the selector in transfer mode, as account.send calls it
SelTransfer ==
    /\ sel.phase = "input"
    /\ \E env \in Envs(store.requests, now, SelBalances) :
          sel' = [phase |-> "transfer", value |-> sel.value, env |-> env,
                  res |-> defaultInputSelection(store.requests, env, sel.value, FALSE)]
    /\ UNCHANGED accVars

\* the selector in probe mode, as account.availableBalance calls it
SelProbe ==
    /\ sel.phase = "input"
    /\ \E env \in Envs(store.requests, now, SelBalances) :
          sel' = [phase |-> "probe", value |-> sel.value, env |-> env,
                  res |-> defaultInputSelection(store.requests, env, 0, TRUE)]
    /\ UNCHANGED accVars

NextSel == SelTransfer \/ SelProbe

SpecSel == SelInit /\ [][NextSel]_vars

----------------------------------------------------------------------------
(* The consistency checker *)

\* a bundle of the list: its bundle hash, the persistence of its first
\* transaction, its transactions (value, and whether the address is the one
\* checked) and the ledger's answer to CheckConsistency on its first
\* transaction's hash ("yes", "no" or "err")
IsDepositToAddr(bndl) ==
    \E j \in 1..Len(bndl.txs) : bndl.txs[j].value > 0 /\ bndl.txs[j].toAddr

\* the loop over bndls from position i on, persisted being the bundle hashes
\* of the persisted bundles met so far
RECURSIVE ConsistencyScan(_, _, _)
ConsistencyScan(bndls, i, persisted) ==
    IF i > Len(bndls) THEN [has |-> FALSE, err |-> "nil"]
    ELSE IF bndls[i].persisted
         THEN ConsistencyScan(bndls, i + 1, persisted \cup {bndls[i].bundle})
    ELSE IF bndls[i].bundle \in persisted THEN ConsistencyScan(bndls, i + 1, persisted)
    ELSE IF ~IsDepositToAddr(bndls[i]) THEN ConsistencyScan(bndls, i + 1, persisted)
    ELSE IF bndls[i].consistent = "err" THEN [has |-> FALSE, err |-> "consistency"]
    ELSE IF bndls[i].consistent = "yes" THEN [has |-> TRUE, err |-> "nil"]
    ELSE ConsistencyScan(bndls, i + 1, persisted)

\* lookup is the ledger's answer to GetBundlesFromAddresses: a failure or a list
hasIncomingConsistentValueTransfer(lookup) ==
    IF lookup.fail THEN [has |-> FALSE, err |-> "bundles"]
    ELSE ConsistencyScan(lookup.bndls, 1, {})

----------------------------------------------------------------------------
(* SpecCons: the consistency checker applied to drawn bundle lists *)

BundleHashes == {"b1", "b2"}

\* a deposit to the address, a zero-value touch of it next to a payment
\* elsewhere, and a deposit to it after a payment elsewhere
TxLists == {<<[value |-> 1, toAddr |-> TRUE]>>,
            <<[value |-> 0, toAddr |-> TRUE], [value |-> 1, toAddr |-> FALSE]>>,
            <<[value |-> 1, toAddr |-> FALSE], [value |-> 1, toAddr |-> TRUE]>>}

\* attachments of one bundle hash carry the same transactions
BundleLists ==
    UNION {{bndls \in [1..n -> [bundle : BundleHashes, persisted : BOOLEAN,
                                consistent : {"yes", "no", "err"}, txs : TxLists]] :
               \A i, j \in 1..n : bndls[i].bundle = bndls[j].bundle => bndls[i].txs = bndls[j].txs}
           : n \in 0..MaxBundles}

ConsInit ==
    /\ running = TRUE
    /\ lastKeyIndex = 0
    /\ setts = [plugins |-> <<>>, ref |-> "caller"]
    /\ mu = [writer |-> {}, readers |-> {}]
    /\ store = NewStore
    /\ now = 0
    /\ pc = [p \in Procs |-> "idle"]
    /\ frame = [p \in Procs |-> NoFrame]
    /\ ret = NoRet
    /\ calls = [p \in Procs |-> {}]
    /\ issued = <<>>
    /\ burnt = [on |-> FALSE, keys |-> {}]
    /\ broadcast = {}
    /\ tails = 0
    /\ plugRuns = [pl \in PluginNames |-> 0]
    /\ sel \in {[phase |-> "bundles", value |-> 0,
                 env |-> [fail |-> fail, bndls |-> bndls], res |-> NoRes] :
                   fail \in BOOLEAN, bndls \in BundleLists}

\* one call of the checker
ConsCheck ==
    /\ sel.phase = "bundles"
    /\ sel' = [sel EXCEPT !.phase = "checked",
                          !.res = hasIncomingConsistentValueTransfer(sel.env)]
    /\ UNCHANGED accVars

NextCons == ConsCheck

SpecCons == ConsInit /\ [][NextCons]_vars

----------------------------------------------------------------------------
(* Properties of the account (Spec) *)

SendLabels == {"Send", "sendSelect", "sendRemainder", "sendPrepare", "sendPersist",
               "sendBroadcast"}

\* caller p's Send returns an error in this step
SendReturnsError(p) == pc[p] \in SendLabels /\ pc'[p] = "idle" /\ ret'.err # "nil"

\* C1: the key indices under which deposit requests are issued, by
\* AllocateDepositRequest and by Send's remainder allocation in any
\* interleaving, are strictly increasing in issue order, so none is issued twice
C1_KeyIndicesStrictlyIncrease ==
    \A i, j \in 1..Len(issued) : i < j => issued[i].keyIndex < issued[j].keyIndex

C1_Witness ==
    /\ Len(issued) = 3
    /\ \E i, j \in 1..Len(issued) :
          issued[i].by = "AllocateDepositRequest" /\ issued[j].by = "send"

\* C2: every deposit request in the store without timeout has an expected
\* amount, requests without timeout are issued by Send's remainder allocation
\* and by nothing else, and no operation ends in the selector's panic
C2_RemaindersCarryExpectedAmount ==
    /\ \A k \in DOMAIN store.requests :
          IsNil(store.requests[k].timeoutAt) => ~IsNil(store.requests[k].expected)
    /\ \A i \in 1..Len(issued) : issued[i].noTimeout <=> issued[i].by = "send"
    /\ ret.err # "panic"

C2_Witness ==
    /\ \E k \in DOMAIN store.requests : IsNil(store.requests[k].timeoutAt)
    /\ \E i \in 1..Len(issued) : issued[i].by = "AllocateDepositRequest"
    /\ ret.op = "AvailableBalance" /\ ret.err = "nil"

\* C3: a bundle is handed to the ledger's store-and-broadcast only with its
\* pending transfer (tail hash, freed key indices) in the store: every
\* broadcast bundle is a stored pending transfer, and Send stands before the
\* broadcast call only with its pending transfer stored
C3_PersistBeforeBroadcast ==
    /\ \A t \in broadcast : \E pt \in store.pending : pt.tail = t
    /\ \A p \in Procs :
          pc[p] = "sendBroadcast" =>
             [tail |-> frame[p].tail, freed |-> Range(frame[p].forRemoval)] \in store.pending

C3_Witness ==
    /\ broadcast # {}
    /\ ret.op = "Send" /\ ret.err = "nil"

\* C4, as claimed: whenever Send returns an error, the store (pending
\* transfers, deposit requests, key index) and the broadcast bundles are as
\* Send found them
C4_SendAllOrNothing ==
    [][\A p \in Procs :
          SendReturnsError(p) =>
             /\ store' = frame[p].entry.store
             /\ broadcast' = frame[p].entry.broadcast]_vars

\* C4, amended: a Send that returns an error from validation or input
\* selection leaves the store and the broadcast bundles as it found them; an
\* error from remainder allocation, transfer preparation or persistence
\* leaves no pending transfer and no broadcast and frees no deposit request,
\* but may leave the key index and the remainder deposit request written; an
\* error from the broadcast step leaves the pending transfer stored, and the
\* bundle broadcast exactly when the error is the decoding of the returned bundle
C4_SendFailureEffects ==
    [][\A p \in Procs :
          SendReturnsError(p) =>
             LET e == frame[p].entry
                 pt == [tail |-> frame[p].tail, freed |-> Range(frame[p].forRemoval)]
             IN /\ pc[p] \in {"Send", "sendSelect"} =>
                      store' = e.store /\ broadcast' = e.broadcast
                /\ pc[p] \in {"sendRemainder", "sendPrepare", "sendPersist"} =>
                      /\ store'.pending = e.store.pending
                      /\ broadcast' = e.broadcast
                      /\ \A k \in DOMAIN e.store.requests :
                            k \in DOMAIN store'.requests
                            /\ store'.requests[k] = e.store.requests[k]
                      /\ \A k \in DOMAIN store'.requests \ DOMAIN e.store.requests :
                            IsNil(store'.requests[k].timeoutAt) /\ k = store'.keyIndex
                /\ pc[p] = "sendBroadcast" =>
                      /\ store'.pending = e.store.pending \cup {pt}
                      /\ ret'.err = "broadcast" => broadcast' = e.broadcast
                      /\ ret'.err = "transactionObjects" =>
                            broadcast' = e.broadcast \cup {frame[p].tail}]_vars

C4_Witness ==
    /\ ret.op = "Send" /\ ret.err = "broadcast"
    /\ store.pending # {}
    /\ broadcast = {}

\* a recipient address that is not of the exact checksummed-address length and format
Malformed(addr) ==
    ~(addr.trytes /\ addr.len = HashTrytesSize + AddressChecksumTrytesSize)

\* C10: on a running account Send with no recipient returns the
\* empty-recipients error and Send with a malformed recipient address returns
\* the invalid-address error, with no collaborator called and the account and
\* the store unchanged; Send goes on only with recipients that are all well formed
C10_SendValidation ==
    [][\A p \in Procs :
          (pc[p] = "Send" /\ running /\ pc'[p] # "Send") =>
             IF pc'[p] = "idle"
             THEN /\ ret'.op = "Send"
                  /\ ret'.err = IF ret'.args = <<>> THEN "EmptyRecipients" ELSE "InvalidAddress"
                  /\ ret'.args # <<>> =>
                        \E i \in 1..Len(ret'.args) : Malformed(ret'.args[i].address)
                  /\ calls[p] = {} /\ calls'[p] = {}
                  /\ UNCHANGED <<running, lastKeyIndex, setts, store, now, issued, burnt,
                                 broadcast, tails, plugRuns>>
             ELSE /\ frame'[p].recipients # <<>>
                  /\ \A i \in 1..Len(frame'[p].recipients) :
                        ~Malformed(frame'[p].recipients[i].address)]_vars

C10_Witness ==
    /\ ret.op = "Send" /\ ret.err = "InvalidAddress"
    /\ Len(ret.args) = 2
    /\ ~Malformed(ret.args[1].address)

----------------------------------------------------------------------------
(* Properties of the selector (SpecSel) *)

\* the call at hand: its store, and the ledger's and the checker's answers
Reqs == store.requests
Bal == sel.env.bal

\* a collaborator failed or the selector panicked: the passes did not run
SelDecided ==
    /\ sel.env.fail = "none"
    /\ \A k \in DOMAIN Reqs : ~(IsNil(Reqs[k].timeoutAt) /\ IsNil(Reqs[k].expected))

TimedOut(k) == ~IsNil(Reqs[k].timeoutAt) /\ sel.env.now > Deref(Reqs[k].timeoutAt)

\* not timed out, and not a multi-use address that waits for its timeout
PrimaryKey(k) ==
    /\ ~TimedOut(k)
    /\ ~(~IsNil(Reqs[k].timeoutAt) /\ Reqs[k].multi /\ IsNil(Reqs[k].expected))

FundedPrimary(k) ==
    PrimaryKey(k) /\ (IsNil(Reqs[k].expected) \/ Bal[k] >= Deref(Reqs[k].expected))

PSum == SumOver(Bal, {k \in DOMAIN Reqs : FundedPrimary(k)})
QSum == SumOver(Bal, {k \in DOMAIN Reqs : TimedOut(k)})

KeysOf(inputs) == [i \in 1..Len(inputs) |-> inputs[i].keyIndex]

\* the keys in allocation order
Ascending(K) == CHOOSE s \in Perms(K) : \A i, j \in 1..Len(s) : i < j => s[i] < s[j]

\* C5, as claimed: when the funded primary addresses cover the target, the
\* inputs of a transfer-mode selection are the shortest prefix of the funded
\* primary addresses, in key index order, whose cumulative balance exceeds the
\* target (all of them when none does), and exactly their key indices are
\* marked for removal
C5_PrefixInKeyIndexOrder ==
    (sel.phase = "transfer" /\ SelDecided /\ PSum >= sel.value) =>
       LET Spendable(k) == FundedPrimary(k) /\ Bal[k] > 0
           L == SelectSeq(Ascending(DOMAIN Reqs), Spendable)
           Cum(n) == SumOver(Bal, {L[i] : i \in 1..n})
           n == IF \E m \in 1..Len(L) : Cum(m) > sel.value
                THEN CHOOSE m \in 1..Len(L) :
                        Cum(m) > sel.value /\ \A m2 \in 1..(m - 1) : Cum(m2) <= sel.value
                ELSE Len(L)
       IN /\ sel.res.status = "ok"
          /\ KeysOf(sel.res.inputs) = SubSeq(L, 1, n)
          /\ Range(sel.res.toRemove) = Range(SubSeq(L, 1, n))

\* C6: a transfer-mode selection with target V > 0 succeeds exactly when
\* P + Q >= V, P the summed balance of the funded primary addresses and Q that
\* of the timed-out ones, and fails with InsufficientBalance otherwise; it
\* succeeds exactly when V is at most the sum the probe returns on the same
\* store and answers
C6_SucceedsIffCovered ==
    (sel.phase = "transfer" /\ SelDecided /\ sel.value > 0) =>
       /\ sel.res.status = "ok" <=> PSum + QSum >= sel.value
       /\ sel.res.status # "ok" =>
             sel.res.status = "error" /\ sel.res.err = "InsufficientBalance"
       /\ sel.res.status = "ok" <=>
             sel.value <= defaultInputSelection(Reqs, sel.env, 0, TRUE).sum

C6_Witness ==
    /\ sel.phase = "transfer" /\ sel.res.status = "ok"
    /\ 0 < PSum /\ PSum < sel.value
    /\ \E i, j \in 1..Len(sel.res.inputs) :
          PrimaryKey(sel.res.inputs[i].keyIndex) /\ TimedOut(sel.res.inputs[j].keyIndex)

\* C7, as claimed: a transfer-mode selection that fails with
\* InsufficientBalance still reports for removal every timed-out address of
\* balance zero without incoming consistent transfer
C7_ZeroBalanceTimedOutStillFreed ==
    (sel.phase = "transfer" /\ SelDecided /\ sel.res.err = "InsufficientBalance") =>
       \A k \in DOMAIN Reqs :
          (TimedOut(k) /\ Bal[k] = 0 /\ sel.env.cons[k] = "none") =>
             k \in Range(sel.res.toRemove)

\* C8: a probe-mode selection leaves the store as it is and returns no input
\* and no key index to free, whatever the store, the balances and the clock;
\* it returns the prospective sum P + Q
C8_ProbeOnlyReturnsSum ==
    [][(sel.phase = "input" /\ sel'.phase = "probe") =>
          /\ store' = store
          /\ sel'.res.inputs = <<>>
          /\ sel'.res.toRemove = <<>>
          /\ SelDecided' => sel'.res.status = "ok" /\ sel'.res.sum = PSum' + QSum']_vars

C8_Witness ==
    /\ sel.phase = "probe" /\ sel.res.status = "ok"
    /\ \E k \in DOMAIN Reqs : FundedPrimary(k) /\ Bal[k] > 0
    /\ \E k \in DOMAIN Reqs : TimedOut(k) /\ Bal[k] > 0
    /\ sel.res.sum > PSum

\* the example: a transfer of 100 from a store of exactly A (key 1, balance
\* 40) and B (key 2, balance 70), both without timeout
ExampleCall ==
    /\ sel.phase = "transfer" /\ sel.value = 100 /\ sel.env.fail = "none"
    /\ DOMAIN Reqs = {1, 2}
    /\ \A k \in {1, 2} : IsNil(Reqs[k].timeoutAt)
    /\ Bal[1] = 40 /\ Bal[2] = 70

----------------------------------------------------------------------------
(* Properties of the admission checks (Spec) *)

\* C11: on a running account, with the clock read, AllocateDepositRequest
\* without timeout returns TimeoutNotSpecified and with a timeout less than
\* five minutes after the clock's time returns TimeoutTooLow, both leaving the
\* last key index and the store as they are; a timeout five minutes or more
\* after the clock's time passes both checks
C11_TimeoutChecks ==
    [][\A p \in Procs :
          (pc[p] = "AllocateDepositRequest" /\ running /\ pc'[p] = "idle"
             /\ ret'.err # "clock") =>
             LET req == ret'.args[1]
             IN /\ IsNil(req.timeoutAt) =>
                      ret'.err = "TimeoutNotSpecified" /\ UNCHANGED <<lastKeyIndex, store>>
                /\ (~IsNil(req.timeoutAt) /\ Deref(req.timeoutAt) < now + 5) =>
                      ret'.err = "TimeoutTooLow" /\ UNCHANGED <<lastKeyIndex, store>>
                /\ (~IsNil(req.timeoutAt) /\ Deref(req.timeoutAt) >= now + 5) =>
                      ret'.err \notin {"TimeoutNotSpecified", "TimeoutTooLow"}]_vars

C11_Witness ==
    /\ ret.op = "AllocateDepositRequest" /\ ret.err = "nil"
    /\ Len(ret.args) = 1
    /\ ret.args[1].timeoutAt = Some(now + 5)

----------------------------------------------------------------------------
(* Properties of the lifecycle (SpecLife) *)

GatedOps == {"Send", "AllocateDepositRequest", "AvailableBalance", "TotalBalance",
             "IsNew", "UpdateSettings", "Shutdown"}

\* C12: while the running flag is false, each of Send, AllocateDepositRequest,
\* AvailableBalance, TotalBalance, IsNew, UpdateSettings and Shutdown returns
\* NotRunning at once, having called no collaborator, and leaves the running
\* flag, the key index, the settings, the store, the ledger and the plugins
\* as they are
C12_NotRunningRejects ==
    [][\A p \in Procs :
          (pc[p] \in GatedOps /\ ~running /\ pc'[p] # pc[p]) =>
             /\ pc'[p] = "idle"
             /\ ret' = [op |-> pc[p], err |-> "NotRunning", args |-> <<>>]
             /\ calls[p] = {}
             /\ UNCHANGED <<running, lastKeyIndex, setts, store, now, issued, burnt,
                            broadcast, tails, plugRuns>>]_vars

\* Shutdown of an account that ran, allocated and was stopped
C12_Witness ==
    /\ ret.op = "Shutdown" /\ ret.err = "NotRunning"
    /\ ~running
    /\ store.keyIndex > 0

\* caller p is inside a mutating operation, or inside a reading one
InMutator(p) == pc[p] \in LifeMutators \cup SendLabels \cup {"updateSettingsStart"}
InReader(p) == pc[p] \in Readers

Exclusion ==
    /\ Cardinality({p \in Procs : InMutator(p)}) <= 1
    /\ (\E p \in Procs : InMutator(p)) => \A q \in Procs : ~InReader(q)

\* C13: in every interleaving at most one caller is inside a mutating
\* operation and no caller is inside a reading operation while one is; a step
\* that starts or stops a plugin or swaps the settings is taken by the one
\* caller inside Start, Shutdown or UpdateSettings, holding the write lock,
\* with every other caller outside
C13_LockExclusion ==
    [][/\ Exclusion /\ Exclusion'
       /\ (plugRuns' # plugRuns \/ (setts' # setts /\ setts'.ref = "copy")) =>
             \E p \in Procs :
                /\ pc[p] \in {"Start", "Shutdown", "UpdateSettings", "updateSettingsStart"}
                /\ mu.writer = {p} /\ mu.readers = {}
                /\ \A q \in Procs \ {p} : pc[q] = "idle"]_vars

\* two readers are inside at once
C13_Witness ==
    /\ \A p \in Procs : InReader(p)
    /\ mu.readers = Procs
    /\ running

\* C14: UpdateSettings on a running account returns the error of a failing
\* plugin shutdown with the settings as they were, and otherwise swaps in a
\* copy of the new settings before it starts the plugins, so that the error of
\* a failing plugin start is returned with the settings replaced; the account
\* keeps running in both cases; the copy is changed by nothing but the next swap
C14_UpdateSettingsFailures ==
    [][/\ \A p \in Procs :
             (pc[p] = "UpdateSettings" /\ running /\ pc'[p] # pc[p]) =>
                \/ /\ pc'[p] = "idle"
                   /\ ret'.op = "UpdateSettings" /\ ret'.err = "shutdownPlugin"
                   /\ setts' = setts
                   /\ running'
                \/ /\ pc'[p] = "updateSettingsStart"
                   /\ setts' = [plugins |-> frame'[p].newSetts, ref |-> "copy"]
                   /\ running'
       /\ \A p \in Procs :
             (pc[p] = "updateSettingsStart" /\ pc'[p] # pc[p]) =>
                /\ pc'[p] = "idle"
                /\ ret'.op = "UpdateSettings" /\ ret'.err \in {"nil", "startPlugin"}
                /\ setts' = [plugins |-> ret'.args[1], ref |-> "copy"]
                /\ setts' = setts
                /\ running'
       /\ (setts.ref = "copy" /\ setts' # setts) =>
             \E p \in Procs : pc[p] = "UpdateSettings" /\ pc'[p] # pc[p]]_vars

\* a plugin start failed under the new settings
C14_Witness ==
    /\ ret.op = "UpdateSettings" /\ ret.err = "startPlugin"
    /\ setts = [plugins |-> ret.args[1], ref |-> "copy"]
    /\ running

\* C15: a Start that returns an error, because the account state cannot be
\* loaded or a plugin does not start, leaves the running flag as it was, so a
\* stopped account stays stopped; a Start that succeeds sets the running flag
\* and has loaded the last key index from the store
C15_StartFailureKeepsStopped ==
    [][\A p \in Procs :
          (pc[p] = "Start" /\ pc'[p] # pc[p]) =>
             /\ pc'[p] = "idle"
             /\ ret'.op = "Start" /\ ret'.err \in {"nil", "store", "plugin"}
             /\ ret'.err # "nil" => running' = running
             /\ ret'.err = "nil" => running' /\ lastKeyIndex' = store.keyIndex]_vars

\* the second plugin failed to start on a stopped account
C15_Witness ==
    /\ ret.op = "Start" /\ ret.err = "plugin"
    /\ ~running
    /\ \E pl \in PluginNames : plugRuns[pl] > 0

\* C16, as claimed: a key index consumed by an allocation that failed is not
\* the key index of any deposit request issued afterwards, whatever
\* operations, Shutdown and Start among them, come in between
C16_BurntIndexNeverReused ==
    [][Len(issued') > Len(issued) =>
          issued'[Len(issued')].keyIndex \notin burnt.keys]_vars

\* C23, as claimed: whenever no operation is in progress, each plugin of the
\* current settings has been started once more often than it has been shut
\* down if the account is running, and as often as it has been shut down if
\* the account is not running
C23_PluginsInLockStep ==
    (\A p \in Procs : pc[p] = "idle") =>
       \A pl \in Range(setts.plugins) : plugRuns[pl] = IF running THEN 1 ELSE 0

----------------------------------------------------------------------------
(* Properties of the send pipeline after input selection (Spec) *)

AfterSelection == {"sendRemainder", "sendPrepare", "sendPersist", "sendBroadcast"}

\* C17, as claimed: when Send returns an error from a step after input
\* selection, the key indices the selection marked are freed from the store
C17_FreedDespiteFailure ==
    [][\A p \in Procs :
          (SendReturnsError(p) /\ pc[p] \in AfterSelection) =>
             \A k \in Range(frame[p].forRemoval) : k \notin DOMAIN store'.requests]_vars

\* C17, amended: when Send returns an error from remainder allocation,
\* preparation or the storing of the pending transfer, the deposit requests
\* of the marked key indices are still in the store as they were; when it
\* returns an error from the broadcast step, after the pending transfer was
\* stored, they are freed and stay freed
C17_FreedOnlyOncePersisted ==
    [][\A p \in Procs :
          (SendReturnsError(p) /\ pc[p] \in AfterSelection) =>
             \A k \in Range(frame[p].forRemoval) :
                IF pc[p] = "sendBroadcast"
                THEN k \notin DOMAIN store'.requests
                ELSE /\ k \in DOMAIN store'.requests
                     /\ store'.requests[k] = frame[p].entry.store.requests[k]]_vars

\* the broadcast failed after the pending transfer freed a deposit request
C17_Witness ==
    /\ ret.op = "Send" /\ ret.err \in {"broadcast", "transactionObjects"}
    /\ \E pt \in store.pending :
          pt.freed # {} /\ pt.freed \cap DOMAIN store.requests = {}

----------------------------------------------------------------------------
(* Properties of the value a Send moves (Spec) *)

\* the sum of the balances of a list of inputs
RECURSIVE InputsSum(_)
InputsSum(inputs) ==
    IF inputs = <<>> THEN 0 ELSE Head(inputs).balance + InputsSum(Tail(inputs))

\* the key indices of the deposit requests p's operation has added to the store
AllocatedBy(p) == DOMAIN store.requests \ DOMAIN frame[p].entry.store.requests

BuildingLabels == {"sendPrepare", "sendPersist", "sendBroadcast"}

\* C22: in a Send that has reached transfer building, the inputs' balances sum
\* to the recipients' values plus the expected amount of the remainder
\* request; when the selected sum exceeds the requested value exactly one
\* deposit request was allocated, with no timeout and the surplus as expected
\* amount, and when they are equal none was; a Send whose recipients' values
\* sum to zero made no input selection, has no inputs, frees no key index and
\* allocated no deposit request
C22_SendConservesValue ==
    \A p \in Procs :
       pc[p] \in BuildingLabels =>
          LET f == frame[p]
              surplus == InputsSum(f.inputs) - f.transferSum
          IN /\ f.transferSum = Sum(f.recipients)
             /\ IF f.transferSum = 0
                THEN /\ "selector" \notin calls[p]
                     /\ f.inputs = <<>> /\ f.forRemoval = <<>>
                     /\ AllocatedBy(p) = {}
                     /\ store.requests = f.entry.store.requests
                ELSE /\ "selector" \in calls[p]
                     /\ surplus >= 0
                     /\ IF surplus > 0
                        THEN /\ Cardinality(AllocatedBy(p)) = 1
                             /\ \A k \in AllocatedBy(p) :
                                   /\ IsNil(store.requests[k].timeoutAt)
                                   /\ store.requests[k].expected = Some(surplus)
                        ELSE AllocatedBy(p) = {}

\* a Send with a surplus has allocated its remainder request and builds the transfer
C22_Witness ==
    \E p \in Procs :
       /\ pc[p] = "sendPrepare"
       /\ frame[p].transferSum > 0
       /\ InputsSum(frame[p].inputs) > frame[p].transferSum
       /\ AllocatedBy(p) # {}

----------------------------------------------------------------------------
(* Properties of the secondary pass (SpecSel) *)

\* the answers with every failed consistency check read as an incoming transfer
ErrorsAsIncoming(env) ==
    [env EXCEPT !.cons = [k \in DOMAIN env.cons |->
                             IF env.cons[k] = "err" THEN "has" ELSE env.cons[k]]]

\* C18: a transfer-mode selection marks a timed-out address of balance zero
\* for freeing only when its consistency check was made and answered, without
\* error, that there is no incoming consistent value transfer; a consistency
\* check that fails does not make the selection fail: the selection returns
\* what it returns when that check answers that there is an incoming transfer
C18_FreedOnlyWhenCheckedClean ==
    (sel.phase = "transfer" /\ SelDecided) =>
       /\ \A k \in Range(sel.res.toRemove) :
             (TimedOut(k) /\ Bal[k] = 0) => (k \in sel.res.checked /\ sel.env.cons[k] = "none")
       /\ sel.res.err \in {"nil", "InsufficientBalance"}
       /\ sel.res = defaultInputSelection(Reqs, ErrorsAsIncoming(sel.env), sel.value, FALSE)

\* a successful selection whose consistency check on a timed-out address failed
C18_Witness ==
    /\ sel.phase = "transfer" /\ sel.res.status = "ok"
    /\ \E k \in DOMAIN Reqs :
          /\ TimedOut(k) /\ Bal[k] = 0 /\ sel.env.cons[k] = "err"
          /\ k \in sel.res.checked
          /\ k \notin Range(sel.res.toRemove)
    /\ \E k \in Range(sel.res.toRemove) : TimedOut(k)

\* C20: in transfer mode, when the funded primary addresses cover the target,
\* the secondary pass is not entered: no timed-out address is an input or is
\* marked for freeing, and no consistency check is made
C20_SecondaryOnlyWhenShort ==
    (sel.phase = "transfer" /\ SelDecided /\ PSum >= sel.value) =>
       /\ \A k \in Range(KeysOf(sel.res.inputs)) \cup Range(sel.res.toRemove) : ~TimedOut(k)
       /\ sel.res.checked = {}

\* the funded primary addresses hold exactly the target and the store also
\* holds a timed-out address
C20_Witness ==
    /\ sel.phase = "transfer" /\ SelDecided /\ sel.res.status = "ok"
    /\ sel.value > 0 /\ PSum = sel.value
    /\ \E k \in DOMAIN Reqs : TimedOut(k)

\* a multi-use address that is not timed out and declares no expected amount
WaitingMultiUse(k) ==
    ~IsNil(Reqs[k].timeoutAt) /\ ~TimedOut(k) /\ Reqs[k].multi /\ IsNil(Reqs[k].expected)

\* C21: every input of a successful transfer-mode selection is a timed-out
\* address, or a not timed-out address that is a remainder address (no
\* timeout), a single-use address or a multi-use address with an expected
\* amount; a not timed-out multi-use address without an expected amount is
\* never an input; a primary address whose balance is below its expected
\* amount is neither an input nor marked for freeing
C21_InputsAreEligible ==
    (sel.phase = "transfer" /\ sel.res.status = "ok") =>
       /\ \A k \in Range(KeysOf(sel.res.inputs)) :
             \/ TimedOut(k)
             \/ IsNil(Reqs[k].timeoutAt)
             \/ ~Reqs[k].multi
             \/ ~IsNil(Reqs[k].expected)
       /\ \A k \in DOMAIN Reqs :
             WaitingMultiUse(k) => k \notin Range(KeysOf(sel.res.inputs))
       /\ \A k \in DOMAIN Reqs :
             (PrimaryKey(k) /\ ~FundedPrimary(k)) =>
                k \notin Range(KeysOf(sel.res.inputs)) \cup Range(sel.res.toRemove)

\* a successful selection that left aside a primary address holding funds, but
\* less than its expected amount
C21_Witness ==
    /\ sel.phase = "transfer" /\ sel.res.status = "ok" /\ sel.res.inputs # <<>>
    /\ \E k \in DOMAIN Reqs :
          /\ Bal[k] > 0
          /\ PrimaryKey(k) /\ ~FundedPrimary(k)
          /\ k \notin Range(sel.res.toRemove)

\* the call at hand made again with the map iterated in the order o
SameCallInOrder(o) ==
    defaultInputSelection(Reqs, [sel.env EXCEPT !.order = o],
                          IF sel.phase = "probe" THEN 0 ELSE sel.value, sel.phase = "probe")

\* C24, as claimed: a second call of the selector on the same deposit
\* requests, balances, clock value, consistency answers, target and mode
\* returns the same sum, the same inputs in the same order and the same set of
\* key indices to free
C24_SelectionIsDeterministic ==
    (sel.phase \in {"transfer", "probe"} /\ sel.env.fail = "none") =>
       \A o \in Perms(DOMAIN Reqs) :
          /\ SameCallInOrder(o).sum = sel.res.sum
          /\ SameCallInOrder(o).inputs = sel.res.inputs
          /\ Range(SameCallInOrder(o).toRemove) = Range(sel.res.toRemove)

\* C25: after a successful transfer-mode selection the sum is the sum of the
\* inputs' balances and at least the target; every input has a positive
\* balance; the inputs' key indices are pairwise distinct and all marked for
\* freeing; every key index marked for freeing that is not an input is a
\* timed-out address of balance zero
C25_SelectionPostcondition ==
    (sel.phase = "transfer" /\ sel.res.status = "ok") =>
       LET inputs == sel.res.inputs
           freed == Range(sel.res.toRemove)
       IN /\ sel.res.err = "nil"
          /\ sel.res.sum = SumOver(Bal, Range(KeysOf(inputs)))
          /\ sel.res.sum >= sel.value
          /\ \A i \in 1..Len(inputs) :
                inputs[i].balance > 0 /\ inputs[i].balance = Bal[inputs[i].keyIndex]
          /\ \A i, j \in 1..Len(inputs) : inputs[i].keyIndex = inputs[j].keyIndex => i = j
          /\ Range(KeysOf(inputs)) \subseteq freed
          /\ \A k \in freed \ Range(KeysOf(inputs)) : TimedOut(k) /\ Bal[k] = 0

\* a successful selection with an input and a freed key index that is no input
C25_Witness ==
    /\ sel.phase = "transfer" /\ sel.res.status = "ok"
    /\ sel.res.inputs # <<>>
    /\ Range(sel.res.toRemove) \ Range(KeysOf(sel.res.inputs)) # {}

----------------------------------------------------------------------------
(* Properties of the consistency checker (SpecCons) *)

\* C19, as claimed: when no collaborator call fails, the checker answers true
\* exactly when the list holds an unconfirmed bundle that shares its bundle
\* hash with no confirmed bundle anywhere in the list, deposits a positive
\* value to the address and is reported consistent
C19_TrueIffUnconfirmedConsistentDeposit ==
    (sel.phase = "checked" /\ sel.res.err = "nil") =>
       LET bndls == sel.env.bndls
       IN sel.res.has <=>
             \E i \in 1..Len(bndls) :
                /\ ~bndls[i].persisted
                /\ \A j \in 1..Len(bndls) :
                      bndls[j].persisted => bndls[j].bundle # bndls[i].bundle
                /\ IsDepositToAddr(bndls[i])
                /\ bndls[i].consistent = "yes"

====
